---- MODULE Spec2Model ----
(***************************************************************************)
(* Route comparison engine of compare_gpx_routes.py: great-circle          *)
(* distance, feature extraction over a per-point sample table, the capped  *)
(* relative-difference similarity component, the weighted 0..100 score,    *)
(* and the command-line driver.                                            *)
(*                                                                         *)
(* Python floats are modelled as exact rationals <<n, d>> in lowest terms  *)
(* with d > 0.  NaN occurs only where the input format allows it (the      *)
(* Grade_percent column) and is filtered before any arithmetic, as in the  *)
(* source.                                                                 *)
(***************************************************************************)
EXTENDS Integers, Sequences, FiniteSets, TLC

VARIABLES
    argc,   \* len(sys.argv)
    csv1,   \* rows of the table named by the first argument
    csv2,   \* rows of the table named by the second argument
    f1,     \* <<>> or <<feature vector of the first route>>
    f2,     \* <<>> or <<feature vector of the second route>>
    score,  \* <<>> or <<similarity score>>
    out,    \* lines printed so far
    exc,    \* the uncaught exception, "none" while there is none
    pc,     \* position in the driver, or in a direct call of one function
    a, b,   \* arguments of a direct call of similarity_component
    sim     \* <<>> or <<its result>>

vars == <<argc, csv1, csv2, f1, f2, score, out, exc, pc, a, b, sim>>

(***************************************************************************)
(* Bounds of the model.                                                    *)
(***************************************************************************)
MaxRows == 2
MaxInt == 3

(***************************************************************************)
(* Exact rational arithmetic standing for float arithmetic.                *)
(***************************************************************************)
Abs(x) == IF x < 0 THEN -x ELSE x

RECURSIVE GCD(_, _)
GCD(x, y) == IF y = 0 THEN x ELSE GCD(y, x % y)

Rat(n, d) ==
    LET g == GCD(Abs(n), Abs(d))
        s == IF d < 0 THEN -1 ELSE 1
    IN  <<(s * n) \div g, (s * d) \div g>>

R(n) == <<n, 1>>
Zero == R(0)
One == R(1)

RNeg(x) == <<-x[1], x[2]>>
RAbs(x) == <<Abs(x[1]), x[2]>>

RAdd(x, y) ==
    LET g == GCD(x[2], y[2])
    IN  Rat(x[1] * (y[2] \div g) + y[1] * (x[2] \div g), (x[2] \div g) * y[2])

RSub(x, y) == RAdd(x, RNeg(y))

RMul(x, y) ==
    LET g1 == GCD(Abs(x[1]), y[2])
        g2 == GCD(Abs(y[1]), x[2])
    IN  Rat((x[1] \div g1) * (y[1] \div g2), (x[2] \div g2) * (y[2] \div g1))

\* x / y for y # 0
RDiv(x, y) == RMul(x, IF y[1] < 0 THEN <<-y[2], -y[1]>> ELSE <<y[2], y[1]>>)

\* x < y, by comparing integer parts and then the reciprocals of the
\* fractional parts, so that no cross product is formed
RECURSIVE RLess(_, _)
RLess(x, y) ==
    LET fx == x[1] \div x[2]
        fy == y[1] \div y[2]
        rx == x[1] % x[2]
        ry == y[1] % y[2]
    IN  IF fx # fy THEN fx < fy
        ELSE IF rx = 0 THEN ry > 0
        ELSE IF ry = 0 THEN FALSE
        ELSE RLess(<<y[2], ry>>, <<x[2], rx>>)

RLeq(x, y) == ~RLess(y, x)

\* Python's max(x, y) and min(x, y) on finite floats
RMax(x, y) == IF RLess(x, y) THEN y ELSE x
RMin(x, y) == IF RLess(y, x) THEN y ELSE x

RECURSIVE RSum(_)
RSum(s) == IF s = <<>> THEN Zero ELSE RAdd(RSum(SubSeq(s, 1, Len(s) - 1)), s[Len(s)])

\* Python's round(x, 2): nearest multiple of 1/100, ties to the even multiple
Round2(x) ==
    LET whole == x[1] \div x[2]
        frac == RMul(<<x[1] % x[2], x[2]>>, R(100))
        h == <<100 * whole * frac[2] + frac[1], frac[2]>>
        q == h[1] \div h[2]
        r == h[1] % h[2]
    IN  IF 2 * r < h[2] THEN Rat(q, 100)
        ELSE IF 2 * r > h[2] THEN Rat(q + 1, 100)
        ELSE IF q % 2 = 0 THEN Rat(q, 100)
        ELSE Rat(q + 1, 100)

(***************************************************************************)
(* similarity_component and compute_similarity_score                       *)
(***************************************************************************)
REL_CAP == R(2)
DENOM_FLOOR == <<1, 1000000000>>

\* min(x / denom, cap) for denom > 0; the quotient is formed only when it
\* is below the cap (x / denom >= cap  iff  x >= cap * denom)
CappedQuotient(x, denom, cap) ==
    IF RLeq(RMul(cap, denom), x) THEN cap ELSE RMin(RDiv(x, denom), cap)

\* the difference taken relative to the first value
similarity_component_asym(x, y, rel_cap) ==
    IF x = Zero /\ y = Zero THEN One
    ELSE LET denom == RMax(x, DENOM_FLOOR)
             rel_diff == CappedQuotient(RAbs(RSub(x, y)), denom, rel_cap)
             s == RSub(One, RDiv(rel_diff, rel_cap))
         IN  RMax(Zero, RMin(One, s))

\* the difference taken relative to the larger value
similarity_component_larger(x, y, rel_cap) ==
    IF x = Zero /\ y = Zero THEN One
    ELSE LET denom == RMax(RMax(x, y), DENOM_FLOOR)
             rel_diff == CappedQuotient(RAbs(RSub(x, y)), denom, rel_cap)
             s == RSub(One, RDiv(rel_diff, rel_cap))
         IN  RMax(Zero, RMin(One, s))

\* the bounds of the final clamp exchanged
similarity_component_swapped(x, y, rel_cap) ==
    IF x = Zero /\ y = Zero THEN One
    ELSE LET denom == RMax(RDiv(RAdd(x, y), R(2)), DENOM_FLOOR)
             rel_diff == CappedQuotient(RAbs(RSub(x, y)), denom, rel_cap)
             s == RSub(One, RDiv(rel_diff, rel_cap))
         IN  RMax(One, RMin(Zero, s))

\* the mean taken in absolute value before it is floored
similarity_component_absdenom(x, y, rel_cap) ==
    IF x = Zero /\ y = Zero THEN One
    ELSE LET denom == RMax(RAbs(RDiv(RAdd(x, y), R(2))), DENOM_FLOOR)
             rel_diff == CappedQuotient(RAbs(RSub(x, y)), denom, rel_cap)
             s == RSub(One, RDiv(rel_diff, rel_cap))
         IN  RMax(Zero, RMin(One, s))

similarity_component(x, y, rel_cap) ==
    IF x = Zero /\ y = Zero THEN One
    ELSE LET denom == RMax(RDiv(RAdd(x, y), R(2)), DENOM_FLOOR)
             rel_diff == CappedQuotient(RAbs(RSub(x, y)), denom, rel_cap)
             s == RSub(One, RDiv(rel_diff, rel_cap))
         IN  RMax(Zero, RMin(One, s))

ScoredKeys ==
    <<"total_distance_km", "total_elev_gain_m", "km_effort", "elev_range_m",
      "avg_grade", "steep10_share", "sinuosity">>


\* the rubric: an ordered table of (feature, weight)
W(k, n) == [key |-> k, w |-> Rat(n, 100)]

\* the distance weight mistyped as 0.35
weights_heavy ==
    << W("total_distance_km", 35), W("total_elev_gain_m", 25), W("km_effort", 15),
       W("elev_range_m", 10), W("avg_grade", 10), W("steep10_share", 10),
       W("sinuosity", 5) >>

\* std_grade scored in place of sinuosity
weights_with_std ==
    << W("total_distance_km", 25), W("total_elev_gain_m", 25), W("km_effort", 15),
       W("elev_range_m", 10), W("avg_grade", 10), W("steep10_share", 10),
       W("std_grade", 5) >>

weights ==
    << W("total_distance_km", 25), W("total_elev_gain_m", 25), W("km_effort", 15),
       W("elev_range_m", 10), W("avg_grade", 10), W("steep10_share", 10),
       W("sinuosity", 5) >>

\* the total not mapped to 0..100
compute_similarity_score_unscaled(fa, fb) ==
    LET term(i) == RMul(weights[i].w,
                        similarity_component(fa[weights[i].key], fb[weights[i].key], REL_CAP))
        total == RSum([i \in 1..Len(weights) |-> term(i)])
    IN  Round2(total)

compute_similarity_score(fa, fb) ==
    LET term(i) == RMul(weights[i].w,
                        similarity_component(fa[weights[i].key], fb[weights[i].key], REL_CAP))
        total == RSum([i \in 1..Len(weights) |-> term(i)])
    IN  Round2(RMul(total, R(100)))

(***************************************************************************)
(* haversine.  Coordinates are whole degrees, latitudes in {-60, 0, 60}    *)
(* and longitudes multiples of 60, where the squared sines and the cosines *)
(* are exact: the intermediate a is then an exact multiple of 1/16.  The   *)
(* central angle 2*atan2(sqrt(a), sqrt(1-a)) is tabulated for a = k/16,    *)
(* rounded to 1/10000 radian, and the returned distance is rounded to a    *)
(* whole number of km.                                                     *)
(***************************************************************************)
EARTH_RADIUS_KM == 6371

\* 4 * sin(d/2)^2 for d a multiple of 60 degrees
Sin2HalfTimes4(d) ==
    LET m == Abs(d) % 360
    IN  CASE m = 0 -> 0
          [] m \in {60, 300} -> 1
          [] m \in {120, 240} -> 3
          [] m = 180 -> 4

\* 2 * cos(lat) for lat in {-60, 0, 60}
CosTimes2(lat) == CASE lat = 0 -> 2 [] Abs(lat) = 60 -> 1

\* round(10000 * 2 * atan2(sqrt(k/16), sqrt(1 - k/16))) for k = 0..16
CentralAngle ==
    <<0, 5054, 7227, 8957, 10472, 11864, 13181, 14455, 15708, 16961, 18235,
      19552, 20944, 22459, 24189, 26362, 31416>>

\* x >= 0 rounded to the nearest whole number
Nearest(x) == R((2 * x[1] + x[2]) \div (2 * x[2]))

\* the latitudes added instead of subtracted
haversine_sum(lat1, lon1, lat2, lon2) ==
    LET a16 == 4 * Sin2HalfTimes4(lat2[1] + lat1[1])
               + CosTimes2(lat1[1]) * CosTimes2(lat2[1]) * Sin2HalfTimes4(lon2[1] - lon1[1])
        c == Rat(CentralAngle[a16 + 1], 10000)
    IN  Nearest(RMul(R(EARTH_RADIUS_KM), c))

haversine(lat1, lon1, lat2, lon2) ==
    LET a16 == 4 * Sin2HalfTimes4(lat2[1] - lat1[1])
               + CosTimes2(lat1[1]) * CosTimes2(lat2[1]) * Sin2HalfTimes4(lon2[1] - lon1[1])
        c == Rat(CentralAngle[a16 + 1], 10000)
    IN  Nearest(RMul(R(EARTH_RADIUS_KM), c))

(***************************************************************************)
(* The sample table.  A cell is the text of one CSV field: a number        *)
(* (kind "num", val the whole number it spells), the text "nan", text that *)
(* is no number ("bad"), or a column absent from the header ("missing").   *)
(***************************************************************************)
Columns ==
    <<"Distance_km", "Elevation_m", "Grade_percent",
      "Cumulative_Elevation_Gain_m", "Latitude", "Longitude">>

Num(n) == [kind |-> "num", val |-> n]
NaNCell == [kind |-> "nan", val |-> 0]
BadCell == [kind |-> "bad", val |-> 0]
MissingCell == [kind |-> "missing", val |-> 0]

\* float(row[col]): the value read from a numeric cell
Float(cell) == R(cell.val)
IsNaN(cell) == cell.kind = "nan"

\* the exception raised while reading one row, columns in source order:
\* row[col] raises KeyError, float(...) raises ValueError
RowFault(row) ==
    LET faulty == {i \in 1..Len(Columns) : row[Columns[i]].kind \in {"missing", "bad"}}
    IN  IF faulty = {} THEN "none"
        ELSE LET i == CHOOSE j \in faulty : \A k \in faulty : j <= k
             IN  IF row[Columns[i]].kind = "missing" THEN "KeyError" ELSE "ValueError"

\* the exception raised by the reading loop: that of the first faulty row
ReadFault(rows) ==
    LET faulty == {i \in 1..Len(rows) : RowFault(rows[i]) # "none"}
    IN  IF faulty = {} THEN "none"
        ELSE RowFault(rows[CHOOSE j \in faulty : \A k \in faulty : j <= k])

Column(rows, col) == [i \in 1..Len(rows) |-> Float(rows[i][col])]

\* Python's max(list) and min(list) on a non-empty list of finite floats
RECURSIVE SeqMax(_)
SeqMax(s) == IF Len(s) = 1 THEN s[1] ELSE RMax(SeqMax(SubSeq(s, 1, Len(s) - 1)), s[Len(s)])

RECURSIVE SeqMin(_)
SeqMin(s) == IF Len(s) = 1 THEN s[1] ELSE RMin(SeqMin(SubSeq(s, 1, Len(s) - 1)), s[Len(s)])

\* [g for g in grades if not math.isnan(g)]
RECURSIVE g_vals(_)
g_vals(rows) ==
    IF rows = <<>> THEN <<>>
    ELSE LET rest == g_vals(SubSeq(rows, 1, Len(rows) - 1))
             cell == rows[Len(rows)]["Grade_percent"]
         IN  IF IsNaN(cell) THEN rest ELSE Append(rest, Float(cell))

\* [g for g in g_vals if g > 0]
RECURSIVE uphill_grades(_)
uphill_grades(g) ==
    IF g = <<>> THEN <<>>
    ELSE LET rest == uphill_grades(SubSeq(g, 1, Len(g) - 1))
         IN  IF RLess(Zero, g[Len(g)]) THEN Append(rest, g[Len(g)]) ELSE rest

\* sum(1 for g in s if g >= t)
CountAtLeast(s, t) == Cardinality({i \in 1..Len(s) : RLeq(R(t), s[i])})

\* floor of the square root of n >= 0
RECURSIVE ISqrtIn(_, _, _)
ISqrtIn(n, lo, hi) ==
    IF lo = hi THEN lo
    ELSE LET mid == (lo + hi + 1) \div 2
         IN  IF mid * mid <= n THEN ISqrtIn(n, mid, hi) ELSE ISqrtIn(n, lo, mid - 1)

\* math.sqrt(x) for x >= 0, rounded down to a multiple of 1/10
Sqrt(x) == Rat(ISqrtIn((100 * x[1]) \div x[2], 0, 1000), 10)

(***************************************************************************)
(* extract_features                                                        *)
(***************************************************************************)
OK == "ok"
KeyError == "KeyError"
ParseError == "ValueError: could not convert string to float"
NoDataError == "ValueError: No data found"
EmptyMaxError == "ValueError: max() arg is an empty sequence"

\* the guard left out
no_data_never(distances) == FALSE

\* the guard "if not distances"
no_data(distances) == distances = <<>>

\* avg_grade and the population variance of the non-NaN grades
Mean(g) == IF g # <<>> THEN RDiv(RSum(g), R(Len(g))) ELSE Zero

Variance(g) ==
    LET avg_grade == Mean(g)
        dev(i) == RSub(g[i], avg_grade)
    IN  IF Len(g) > 0
        THEN RDiv(RSum([i \in 1..Len(g) |-> RMul(dev(i), dev(i))]), R(Len(g)))
        ELSE Zero

\* the steep grades summed instead of counted
steep_share_sum(uphill, t) ==
    IF uphill # <<>>
    THEN RDiv(RSum([i \in 1..Len(uphill) |->
                      IF RLeq(R(t), uphill[i]) THEN uphill[i] ELSE Zero]), R(Len(uphill)))
    ELSE Zero

\* share of the uphill grades that are >= t; 0.0 without uphill grades
steep_share(uphill, t) ==
    IF uphill # <<>> THEN Rat(CountAtLeast(uphill, t), Len(uphill)) ELSE Zero

sinuosity_of(total_distance_km, beeline_km) ==
    IF RLess(Zero, beeline_km) THEN RDiv(total_distance_km, beeline_km) ELSE One

km_effort_of(total_distance_km, total_elev_gain_m) ==
    RAdd(total_distance_km, RDiv(total_elev_gain_m, R(100)))

\* the returned dict, for a non-empty table without faulty cells
Features(rows) ==
    LET distances == Column(rows, "Distance_km")
        elevations == Column(rows, "Elevation_m")
        cum_gains == Column(rows, "Cumulative_Elevation_Gain_m")
        lats == Column(rows, "Latitude")
        lons == Column(rows, "Longitude")
        total_distance_km == SeqMax(distances)
        total_elev_gain_m == SeqMax(cum_gains)
        max_elev == SeqMax(elevations)
        min_elev == SeqMin(elevations)
        g == g_vals(rows)
        uphill == uphill_grades(g)
        beeline_km == haversine(lats[1], lons[1], lats[Len(rows)], lons[Len(rows)])
    IN  [ total_distance_km |-> total_distance_km,
          total_elev_gain_m |-> total_elev_gain_m,
          km_effort |-> km_effort_of(total_distance_km, total_elev_gain_m),
          max_elev_m |-> max_elev,
          min_elev_m |-> min_elev,
          elev_range_m |-> RSub(max_elev, min_elev),
          avg_grade |-> Mean(g),
          std_grade |-> Sqrt(Variance(g)),
          steep10_share |-> steep_share(uphill, 10),
          steep20_share |-> steep_share(uphill, 20),
          sinuosity |-> sinuosity_of(total_distance_km, beeline_km) ]

\* the outcome of extract_features on a table: the exception it raises or
\* "ok", and the feature vector it returns (a sequence of length 0 or 1)
extract_features(rows) ==
    IF ReadFault(rows) # "none" THEN [status |-> ReadFault(rows), feats |-> <<>>]
    ELSE IF no_data(Column(rows, "Distance_km"))
         THEN [status |-> NoDataError, feats |-> <<>>]
    ELSE IF rows = <<>> THEN [status |-> EmptyMaxError, feats |-> <<>>]
    ELSE [status |-> OK, feats |-> <<Features(rows)>>]

(***************************************************************************)
(* Inputs                                                                  *)
(***************************************************************************)
Row(d, e, g, cg, lat, lon) ==
    [ Distance_km |-> d, Elevation_m |-> e, Grade_percent |-> g,
      Cumulative_Elevation_Gain_m |-> cg, Latitude |-> lat, Longitude |-> lon ]

Tables(rowset) == UNION {[1..n -> rowset] : n \in 0..MaxRows}

\* tables given to the driver: well-formed rows, a row with a non-numeric
\* cell and a row read under a header that lacks a column
DriverRows ==
    { Row(Num(0), Num(100), NaNCell, Num(0), Num(0), Num(0)),
      Row(Num(1), Num(200), Num(10), Num(100), Num(0), Num(60)),
      Row(Num(1), BadCell, Num(10), Num(100), Num(0), Num(60)),
      Row(Num(1), Num(200), Num(10), Num(100), MissingCell, Num(60)) }

\* tables given to extract_features directly
\* (Distance_km, Elevation_m, Cumulative_Elevation_Gain_m) of a sample
Progress == {<<0, 3, 0>>, <<1, -1, 0>>, <<2, 3, 100>>}
Grades == {NaNCell, Num(-5), Num(5), Num(10), Num(20)}
Points == {<<0, 0>>, <<60, 0>>}

RouteRows ==
    { Row(Num(p[1]), Num(p[2]), g, Num(p[3]), Num(q[1]), Num(q[2])) :
        p \in Progress, g \in Grades, q \in Points }

\* a feature vector with the given scored features
Vector(d, g, e, r, ag, s10, sn, diag) ==
    [ total_distance_km |-> d, total_elev_gain_m |-> g, km_effort |-> e,
      max_elev_m |-> diag, min_elev_m |-> diag, elev_range_m |-> r,
      avg_grade |-> ag, std_grade |-> diag, steep10_share |-> s10,
      steep20_share |-> diag, sinuosity |-> sn ]

VectorsOver(vals) ==
    { Vector(d, g, e, r, ag, s10, sn, Zero) :
        d \in vals, g \in vals, e \in vals, r \in vals, ag \in vals,
        s10 \in vals, sn \in vals }

\* the 1 km / 0 m route and the 50 km / 3000 m route
ShortFlat(rest) ==
    { Vector(R(1), R(0), R(1), r, ag, s10, sn, Zero) :
        r \in rest, ag \in rest, s10 \in rest, sn \in rest }

LongSteep(rest) ==
    { Vector(R(50), R(3000), R(80), r, ag, s10, sn, Zero) :
        r \in rest, ag \in rest, s10 \in rest, sn \in rest }

(***************************************************************************)
(* The driver (the __main__ block)                                         *)
(***************************************************************************)
Line(text, data) == [text |-> text, data |-> data]

Init ==
    /\ argc \in {2, 3, 4}
    /\ csv1 \in Tables(DriverRows)
    /\ csv2 \in Tables(DriverRows)
    /\ f1 = <<>> /\ f2 = <<>> /\ score = <<>>
    /\ out = <<>> /\ exc = "none"
    /\ pc = "start"
    /\ a = Zero /\ b = Zero /\ sim = <<>>

CheckArgs ==
    /\ pc = "start"
    /\ IF argc # 3
       THEN /\ out' = Append(out, Line("Usage:", <<>>))
            /\ pc' = "exit 1"
       ELSE /\ out' = out
            /\ pc' = "extract csv1"
    /\ UNCHANGED <<argc, csv1, csv2, f1, f2, score, exc, a, b, sim>>

\* the first route's features printed as soon as they are extracted
ExtractFirst_printing ==
    /\ pc = "extract csv1"
    /\ LET r == extract_features(csv1)
       IN  IF r.status = OK
           THEN /\ f1' = r.feats /\ exc' = exc /\ pc' = "extract csv2"
                /\ out' = Append(out, Line("Route 1 features:", r.feats))
           ELSE /\ f1' = f1 /\ exc' = r.status /\ pc' = "raised" /\ out' = out
    /\ UNCHANGED <<argc, csv1, csv2, f2, score, a, b, sim>>

ExtractFirst ==
    /\ pc = "extract csv1"
    /\ LET r == extract_features(csv1)
       IN  IF r.status = OK
           THEN /\ f1' = r.feats /\ exc' = exc /\ pc' = "extract csv2"
           ELSE /\ f1' = f1 /\ exc' = r.status /\ pc' = "raised"
    /\ UNCHANGED <<argc, csv1, csv2, f2, score, out, a, b, sim>>

ExtractSecond ==
    /\ pc = "extract csv2"
    /\ LET r == extract_features(csv2)
       IN  IF r.status = OK
           THEN /\ f2' = r.feats /\ exc' = exc /\ pc' = "score"
           ELSE /\ f2' = f2 /\ exc' = r.status /\ pc' = "raised"
    /\ UNCHANGED <<argc, csv1, csv2, f1, score, out, a, b, sim>>

ComputeScore ==
    /\ pc = "score"
    /\ score' = <<compute_similarity_score(f1[1], f2[1])>>
    /\ pc' = "print"
    /\ UNCHANGED <<argc, csv1, csv2, f1, f2, out, exc, a, b, sim>>

PrintResults ==
    /\ pc = "print"
    /\ out' = out \o << Line("Route 1 features:", f1),
                        Line("Route 2 features:", f2),
                        Line("Similarity score:", score) >>
    /\ pc' = "done"
    /\ UNCHANGED <<argc, csv1, csv2, f1, f2, score, exc, a, b, sim>>

Next == CheckArgs \/ ExtractFirst \/ ExtractSecond \/ ComputeScore \/ PrintResults

Spec == Init /\ [][Next]_vars

(***************************************************************************)
(* Direct calls of the three functions on inputs drawn from bounded sets   *)
(***************************************************************************)

\* extract_features(table)
InitExtract ==
    /\ argc = 3
    /\ csv1 \in Tables(RouteRows)
    /\ csv2 = <<>>
    /\ f1 = <<>> /\ f2 = <<>> /\ score = <<>>
    /\ out = <<>> /\ exc = "none"
    /\ pc = "call"
    /\ a = Zero /\ b = Zero /\ sim = <<>>

CallExtractFeatures ==
    /\ pc = "call"
    /\ LET r == extract_features(csv1)
       IN  /\ f1' = r.feats
           /\ exc' = IF r.status = OK THEN exc ELSE r.status
           /\ pc' = IF r.status = OK THEN "returned" ELSE "raised"
    /\ UNCHANGED <<argc, csv1, csv2, f2, score, out, a, b, sim>>

SpecExtract == InitExtract /\ [][CallExtractFeatures]_vars

\* compute_similarity_score(f1, f2)
CallComputeSimilarityScore ==
    /\ pc = "call"
    /\ score' = <<compute_similarity_score(f1[1], f2[1])>>
    /\ pc' = "returned"
    /\ UNCHANGED <<argc, csv1, csv2, f1, f2, out, exc, a, b, sim>>

RestVals == {R(-1), R(0), R(2)}

ScorePairs ==
    (ShortFlat(RestVals) \X LongSteep(RestVals))
    \cup (VectorsOver({R(1), R(3)}) \X VectorsOver({R(-1), R(2)}))
    \cup {<<f, f>> : f \in VectorsOver({R(-1), R(0), R(2)})}

InitScore ==
    /\ argc = 3 /\ csv1 = <<>> /\ csv2 = <<>>
    /\ \E p \in ScorePairs : f1 = <<p[1]>> /\ f2 = <<p[2]>>
    /\ score = <<>>
    /\ out = <<>> /\ exc = "none"
    /\ pc = "call"
    /\ a = Zero /\ b = Zero /\ sim = <<>>

SpecScore == InitScore /\ [][CallComputeSimilarityScore]_vars

\* the same call on vectors that also differ in the unscored features
DiagVals == {R(-1), R(4)}

DiagBase ==
    { Vector(d, g, d, g, ag, s10, s10, u) :
        d \in {R(1), R(3)}, g \in {R(0), R(2)}, ag \in {R(-1)},
        s10 \in {Rat(1, 2)}, u \in {Zero, R(5)} }

Variants(f) ==
    { [f EXCEPT !.max_elev_m = u1, !.min_elev_m = u2, !.std_grade = u3,
                !.steep20_share = u4] :
        u1 \in DiagVals, u2 \in DiagVals, u3 \in DiagVals, u4 \in DiagVals }

InitDiag ==
    /\ argc = 3 /\ csv1 = <<>> /\ csv2 = <<>>
    /\ \E x \in DiagBase, y \in DiagBase : f1 = <<x>> /\ f2 = <<y>>
    /\ score = <<>>
    /\ out = <<>> /\ exc = "none"
    /\ pc = "call"
    /\ a = Zero /\ b = Zero /\ sim = <<>>

SpecDiag == InitDiag /\ [][CallComputeSimilarityScore]_vars

\* similarity_component(a, b) with the default rel_cap
Coarse ==
    {R(n) : n \in -MaxInt..MaxInt}
    \cup {R(-5), Rat(-51, 10), R(5), Rat(51, 10), R(50), R(80), R(3000)}

Tiny == {Rat(n, 1000000000) : n \in -1..3}

ComponentPairs == (Coarse \X Coarse) \cup (Tiny \X Tiny)

InitComponent ==
    /\ argc = 3 /\ csv1 = <<>> /\ csv2 = <<>>
    /\ f1 = <<>> /\ f2 = <<>> /\ score = <<>>
    /\ out = <<>> /\ exc = "none"
    /\ pc = "call"
    /\ \E p \in ComponentPairs : a = p[1] /\ b = p[2]
    /\ sim = <<>>

CallSimilarityComponent ==
    /\ pc = "call"
    /\ sim' = <<similarity_component(a, b, REL_CAP)>>
    /\ pc' = "returned"
    /\ UNCHANGED <<argc, csv1, csv2, f1, f2, score, out, exc, a, b>>

SpecComponent == InitComponent /\ [][CallSimilarityComponent]_vars

(***************************************************************************)
(* Properties                                                              *)
(***************************************************************************)
Between(lo, x, hi) == RLeq(lo, x) /\ RLeq(x, hi)

ScoredKeySet == {ScoredKeys[i] : i \in 1..Len(ScoredKeys)}

\* C1: every score compute_similarity_score returns lies in the closed
\* range [0, 100], whatever the two feature vectors are (negative and zero
\* features included).
C1_ScoreInRange ==
    score # <<>> => Between(Zero, score[1], R(100))

\* a score strictly inside the range, between a vector that has a negative
\* avg_grade and a zero feature and a different vector
C1_Witness ==
    /\ score # <<>>
    /\ f1 # f2
    /\ f1[1].avg_grade = R(-1)
    /\ f1[1].total_elev_gain_m = Zero
    /\ RLess(Zero, score[1]) /\ RLess(score[1], R(100))

\* C2: the score of a feature vector against itself is exactly 100.00:
\* each of the 7 rubric components is 1.0 on equal values and the 7 weights
\* sum to 1.0.
C2_SelfScore ==
    (score # <<>> /\ f1 = f2) =>
        /\ score[1] = R(100)
        /\ \A k \in ScoredKeySet : similarity_component(f1[1][k], f2[1][k], REL_CAP) = One
        /\ Len(weights) = 7
        /\ RSum([i \in 1..Len(weights) |-> weights[i].w]) = One

\* a vector with a zero feature and a negative avg_grade scored against itself
C2_Witness ==
    /\ score # <<>>
    /\ f1 = f2
    /\ f1[1].total_distance_km = Zero
    /\ f1[1].avg_grade = R(-1)

\* C3: similarity_component is symmetric in its two scalar arguments
\* (positive, zero or negative) for the default rel_cap 2.0.
C3_Symmetric ==
    sim # <<>> => sim[1] = similarity_component(b, a, REL_CAP)

\* two different values whose component is strictly between 0 and 1
C3_Witness ==
    /\ sim # <<>>
    /\ a # b
    /\ RLess(Zero, sim[1]) /\ RLess(sim[1], One)

\* C4: the score depends only on the 7 rubric features: vectors that differ
\* from f1 and f2 only in max_elev_m, min_elev_m, std_grade and
\* steep20_share get the same score as f1 and f2.
C4_DiagnosticsIgnored ==
    score # <<>> =>
        \A g1 \in Variants(f1[1]), g2 \in Variants(f2[1]) :
            compute_similarity_score(g1, g2) = score[1]

\* a score computed for two vectors whose unscored features differ from
\* each other and from every variant compared with
C4_Witness ==
    /\ score # <<>>
    /\ f1[1].std_grade = R(5)
    /\ f2[1].std_grade = Zero
    /\ f1[1] \notin Variants(f1[1])
    /\ RLess(Zero, score[1]) /\ RLess(score[1], R(100))

\* C5: extract_features on a table with zero rows raises the "No data
\* found" error and returns no feature vector; it does not reach the
\* max/min aggregation (whose own error on an empty list never appears).
C5_EmptyRouteFails ==
    (pc # "call" /\ csv1 = <<>>) =>
        /\ pc = "raised"
        /\ exc = NoDataError
        /\ f1 = <<>>

C5_Witness ==
    pc = "raised" /\ csv1 = <<>> /\ exc = NoDataError

\* C6: in the driver a score is computed, and a feature vector or score
\* line printed, only after both extractions succeeded; when the extraction
\* of either route fails the run ends with that error, without a score and
\* without output.  (The only other output is the usage message of a run
\* with a wrong argument count, which extracts nothing.)
ResultLines == {"Route 1 features:", "Route 2 features:", "Similarity score:"}

Failed(rows) == extract_features(rows).status # OK

C6_ScoreOnlyAfterBoth ==
    /\ score # <<>> => (f1 # <<>> /\ f2 # <<>> /\ ~Failed(csv1) /\ ~Failed(csv2))
    /\ \A i \in 1..Len(out) :
          IF out[i].text \in ResultLines
          THEN f1 # <<>> /\ f2 # <<>> /\ score # <<>>
          ELSE argc # 3 /\ out = <<Line("Usage:", <<>>)>>
    /\ (argc = 3 /\ (Failed(csv1) \/ Failed(csv2))) =>
          /\ score = <<>>
          /\ out = <<>>
          /\ pc \in {"start", "extract csv1", "extract csv2", "raised"}
    /\ pc = "raised" =>
          /\ exc # "none"
          /\ exc = IF Failed(csv1) THEN extract_features(csv1).status
                   ELSE extract_features(csv2).status

\* the first route was extracted, the second failed, the run has ended
C6_Witness ==
    /\ pc = "raised"
    /\ f1 # <<>>
    /\ Failed(csv2)
    /\ out = <<>> /\ score = <<>>

\* C7: a non-empty route whose first and last rows have the same latitude
\* and longitude is extracted without error and has sinuosity 1.0,
\* whatever its total distance.
SameEnds(rows) ==
    /\ rows # <<>>
    /\ rows[1]["Latitude"] = rows[Len(rows)]["Latitude"]
    /\ rows[1]["Longitude"] = rows[Len(rows)]["Longitude"]

C7_LoopSinuosity ==
    (pc # "call" /\ SameEnds(csv1)) =>
        /\ pc = "returned"
        /\ f1[1].sinuosity = One

\* a closed loop of positive length away from the equator
C7_Witness ==
    /\ pc = "returned"
    /\ Len(csv1) = MaxRows
    /\ SameEnds(csv1)
    /\ csv1[1]["Latitude"] = Num(60)
    /\ RLess(Zero, f1[1].total_distance_km)

\* C8: the 1 km / 0 m route (km_effort 1) against the 50 km / 3000 m route
\* (km_effort 80) scores below 40 for every choice of the other four scored
\* features of the two routes.
IsShortFlat(f) ==
    f.total_distance_km = R(1) /\ f.total_elev_gain_m = R(0) /\ f.km_effort = R(1)

IsLongSteep(f) ==
    f.total_distance_km = R(50) /\ f.total_elev_gain_m = R(3000) /\ f.km_effort = R(80)

C8_ExtremeMismatch ==
    (score # <<>> /\ IsShortFlat(f1[1]) /\ IsLongSteep(f2[1])) =>
        RLess(score[1], R(40))

\* the mismatch with the other four features equal: the highest score, 36.35
C8_Witness ==
    /\ score # <<>>
    /\ IsShortFlat(f1[1]) /\ IsLongSteep(f2[1])
    /\ \A k \in {"elev_range_m", "avg_grade", "steep10_share", "sinuosity"} :
          f1[1][k] = f2[1][k]
    /\ score[1] = Rat(3635, 100)

\* C9 as stated: the components of the distance pair (1, 50) and of the
\* gain pair (0, 3000) are both 0.
C9_BothZero ==
    (sim # <<>> /\ <<a, b>> \in {<<R(1), R(50)>>, <<R(0), R(3000)>>}) =>
        sim[1] = Zero

\* C9 amended: the gain pair (0, 3000) has relative difference exactly 2.0,
\* the cap, and component 0; the distance pair (1, 50) has relative
\* difference 98/51, below the cap, and component 2/51 (about 0.039), not 0.
C9_GainZeroDistanceSmall ==
    sim # <<>> =>
        /\ (a = R(0) /\ b = R(3000)) => sim[1] = Zero
        /\ (a = R(1) /\ b = R(50)) => sim[1] = Rat(2, 51)

C9_Witness ==
    sim # <<>> /\ a = R(1) /\ b = R(50) /\ RLess(Zero, sim[1])

\* C10: for a non-empty route whose distances and cumulative gains are all
\* >= 0 the feature vector has elev_range_m = max_elev_m - min_elev_m >= 0,
\* steep10_share and steep20_share in [0, 1], and total_distance_km,
\* total_elev_gain_m and km_effort >= 0; also when all grades are NaN or
\* none is positive.
NonNegativeProgress(rows) ==
    \A i \in 1..Len(rows) :
        /\ rows[i]["Distance_km"].val >= 0
        /\ rows[i]["Cumulative_Elevation_Gain_m"].val >= 0

C10_FeatureRanges ==
    (pc = "returned" /\ NonNegativeProgress(csv1)) =>
        LET f == f1[1]
        IN  /\ f.elev_range_m = RSub(f.max_elev_m, f.min_elev_m)
            /\ RLeq(Zero, f.elev_range_m)
            /\ Between(Zero, f.steep10_share, One)
            /\ Between(Zero, f.steep20_share, One)
            /\ RLeq(Zero, f.total_distance_km)
            /\ RLeq(Zero, f.total_elev_gain_m)
            /\ RLeq(Zero, f.km_effort)

\* a route of several rows without a positive grade: one NaN, one downhill
C10_Witness ==
    /\ pc = "returned"
    /\ Len(csv1) = 2
    /\ csv1[1]["Grade_percent"] = NaNCell
    /\ csv1[2]["Grade_percent"] = Num(-5)
    /\ RLess(Zero, f1[1].elev_range_m)
    /\ f1[1].steep10_share = Zero

\* C11: the denominator is floored at 1e-9, not taken in absolute value, so
\* the component is 0 for every pair whose sum is <= 0 and whose difference
\* is at least 2e-9, however close the two values are relative to their
\* size: -5.0 and -5.1 get 0, while +5.0 and +5.1 get 100/101 (about 0.99).
C11_NonPositiveSumIsZero ==
    sim # <<>> =>
        /\ (/\ RLeq(RAdd(a, b), Zero)
            /\ RLeq(RMul(REL_CAP, DENOM_FLOOR), RAbs(RSub(a, b)))) => sim[1] = Zero
        /\ (a = R(5) /\ b = Rat(51, 10)) => sim[1] = Rat(100, 101)

\* two net-downhill average grades 2% apart
C11_Witness ==
    /\ sim # <<>>
    /\ a = R(-5)
    /\ b = Rat(-51, 10)
    /\ sim[1] = Zero

====
